---- MODULE Spec2Model ----
(***************************************************************************)
(* Mega Server Career Bot: the aggregation pipeline.                       *)
(*   src/services/dedup.js      the dedup store (seenJobs + data/jobs.json)*)
(*   src/services/scheduler.js  the cron tasks and the manual trigger      *)
(*   src/bot.js                 the two handlers, postJobs, ClientReady    *)
(* Time is counted in days; a timestamp is the day on which Date() is read.*)
(***************************************************************************)
EXTENDS Integers, Sequences, FiniteSets, Bags, TLC

VARIABLES
    seenJobs,       \* dedup.js: the in-memory cache, id -> record
    disk,           \* data/jobs.json as the file system holds it
    writable,       \* whether writeFileSync on data/jobs.json succeeds
    now,            \* the wall clock read by new Date()
    calls,          \* per id, the clock readings of the markJobSeen calls made on its record
    careerChannel,  \* bot.js: the resolved channel, or Null
    schedule,       \* config.schedule: the two cron expressions
    tasks,          \* scheduler.js: names of the tasks cron.schedule created
    started,        \* whether the ClientReady handler has run
    runs,           \* the handler executions in progress, a bag of their states
    channel,        \* what the Discord channel received, per posting id
    dropped,        \* ids all of whose postings the batch cap cut off (logged "queued for next batch")
    claimed,        \* per id, how many cycles put it in their new set and marked it
    sweep,          \* the last cleanOldEntries call: the ids it deleted and what it returned
    caught,         \* the callers that saw a handler execution reject: a task's cron callback, trigger, ClientReady
    lost,           \* the last shutdown: the ids of the cycles it cut short and what the channel held then
    filters,        \* config.filters as a filterJobs call reads it
    fetched,        \* the postings a scraper hands to filterJobs
    kept,           \* what that filterJobs call returned
    page,           \* the entries of a listing page as a scraper's source serves them
    fetches,        \* the fetches of that page made so far: the scraper, the clock reading, the postings built
    adapter,        \* one scrape() call of the Lever or Greenhouse adapter: its scrapeCompany promises, its own
    mailbox         \* one parse() call of the LinkedIn parser: the IMAP connection, its timers, the jobs array

vars == <<seenJobs, disk, writable, now, calls, careerChannel, schedule, tasks, started, runs, channel, dropped, claimed,
          sweep, caught, lost, filters, fetched, kept, page, fetches,
          adapter, mailbox>>

dedupVars == <<seenJobs, disk, writable, now, calls, sweep>>
botVars == <<careerChannel, schedule, tasks, started, runs, channel, dropped, claimed, caught, lost>>
filterVars == <<filters, fetched, kept>>
scrapeVars == <<page, fetches, adapter, mailbox>>

----------------------------------------------------------------------------
\* Bounds of the model.

\* last day the clock reaches
MaxTime == 2
\* markJobSeen calls followed per record
MaxCalls == 2
\* handler executions that can be in progress together
MaxRuns == 2
\* config.formatting.maxBatchSize, scaled down from 10
maxBatchSize == 2

----------------------------------------------------------------------------
\* Values.

Null == "null"

\* what `x || d` treats as absent: the empty string and a missing field
Falsy == {"", "undefined"}

OrElse(x, d) == IF x \in Falsy THEN d ELSE x

RetentionDays == 30

Ids == {"lever-1", "lever-2", "greenhouse-1", "greenhouse-2", "wellfound-1", "yc-1", "linkedin-1"}

Job(i, t, c, u, s) == [id |-> i, title |-> t, company |-> c, url |-> u, source |-> s]

EmptyStore == [k \in {} |-> Null]

\* data/jobs.json: absent, unparsable, or the JSON of a store
NoFile == [kind |-> "missing", content |-> EmptyStore]
Corrupt == [kind |-> "corrupt", content |-> EmptyStore]
JsonFile(store) == [kind |-> "json", content |-> store]

----------------------------------------------------------------------------
\* src/services/dedup.js

hasSeenJob(store, jobId) == jobId \in DOMAIN store

\* the record with firstSeen reset on every call
SeenRecordFresh(store, jobId, job, t) ==
    [id |-> jobId,
     title |-> OrElse(job.title, Null),
     company |-> OrElse(job.company, Null),
     url |-> OrElse(job.url, Null),
     source |-> OrElse(job.source, Null),
     firstSeen |-> t,
     lastSeen |-> t]

\* the record with lastSeen kept from the record it replaces
SeenRecordStale(store, jobId, job, t) ==
    [id |-> jobId,
     title |-> OrElse(job.title, Null),
     company |-> OrElse(job.company, Null),
     url |-> OrElse(job.url, Null),
     source |-> OrElse(job.source, Null),
     firstSeen |-> t,
     lastSeen |-> IF jobId \in DOMAIN store THEN store[jobId].lastSeen ELSE t]

\* dedup.js:73-81: the object literal stored under jobId
SeenRecord(store, jobId, job, t) ==
    [id |-> jobId,
     title |-> OrElse(job.title, Null),
     company |-> OrElse(job.company, Null),
     url |-> OrElse(job.url, Null),
     source |-> OrElse(job.source, Null),
     firstSeen |-> IF jobId \in DOMAIN store THEN store[jobId].firstSeen ELSE t,
     lastSeen |-> t]

\* the assignment seenJobs[jobId] = {...}
markJobSeen(store, jobId, job, t) ==
    [k \in DOMAIN store \cup {jobId} |->
        IF k = jobId THEN SeenRecord(store, jobId, job, t) ELSE store[k]]

\* writeFileSync either replaces the file or throws, and the throw is swallowed
save(store, dsk, writeOk) == IF writeOk THEN JsonFile(store) ELSE dsk

\* the records whose last encounter lies before the cutoff
ExpiredByLastSeen(store, t) == {id \in DOMAIN store : store[id].lastSeen < t - RetentionDays}

\* dedup.js:108-114: the ids whose firstSeen lies before the cutoff, 30 days back
Expired(store, t) == {id \in DOMAIN store : store[id].firstSeen < t - RetentionDays}

\* the sweep that deletes nothing
cleanOldEntriesKeepAll(store, t) == store

\* dedup.js:113-118: the cache after the sweep
cleanOldEntries(store, t) == [id \in DOMAIN store \ Expired(store, t) |-> store[id]]

\* the value of a call to a function that has no return statement
Undefined == [defined |-> FALSE, value |-> 0]

\* dedup.js:107-124: `removed` is counted and logged, and nothing is returned
cleanOldEntriesReturn(store, t) == Undefined

\* one cleanOldEntries call: the cache it started from, the ids deleted, the value returned
Sweep(store, t) ==
    [called |-> TRUE, store |-> store, ids |-> Expired(store, t),
     returned |-> cleanOldEntriesReturn(store, t)]

NoSweep == [called |-> FALSE, store |-> EmptyStore, ids |-> {}, returned |-> Undefined]

\* init() without its try/catch: a file that does not parse aborts the caller
initThrowsOnCorrupt(dsk) == dsk.kind = "corrupt"

\* dedup.js:21-38: every error of the read, the parse and the sweep is caught
initThrows(dsk) == FALSE

\* the cache after init(): the parsed file minus the expired records, or {}
initStore(dsk, t) ==
    IF dsk.kind = "json" THEN cleanOldEntries(dsk.content, t) ELSE EmptyStore

\* dedup.js:27: init() sweeps only a file it could parse
initSweep(dsk, t, last) == IF dsk.kind = "json" THEN Sweep(dsk.content, t) ELSE last

\* the file after init(): rewritten after an eviction, created when absent
initDisk(dsk, t, writeOk) ==
    CASE dsk.kind = "json" ->
            IF Expired(dsk.content, t) # {}
            THEN save(cleanOldEntries(dsk.content, t), dsk, writeOk)
            ELSE dsk
      [] dsk.kind = "missing" -> save(EmptyStore, dsk, writeOk)
      [] OTHER -> dsk

----------------------------------------------------------------------------
\* src/scrapers/*.js: filterJobs, the same function in the Lever, Greenhouse,
\* Wellfound and Y Combinator scrapers.  A string is matched character by character.

\* the characters of the strings in use
Chars(str) ==
    CASE str = "Sales Engineer" -> <<"S", "a", "l", "e", "s", " ", "E", "n", "g", "i", "n", "e", "e", "r">>
      [] str = "AI Lead" -> <<"A", "I", " ", "L", "e", "a", "d">>
      [] str = "Presales" -> <<"P", "r", "e", "s", "a", "l", "e", "s">>
      [] str = "ML Engineer" -> <<"M", "L", " ", "E", "n", "g", "i", "n", "e", "e", "r">>
      [] str = "Sr ML Engineer" -> <<"S", "r", " ", "M", "L", " ", "E", "n", "g", "i", "n", "e", "e", "r">>
      [] str = "Job Opportunity" -> <<"J", "o", "b", " ", "O", "p", "p", "o", "r", "t", "u", "n", "i", "t", "y">>
      [] str = "Chef" -> <<"C", "h", "e", "f">>
      [] str = "AI Intern" -> <<"A", "I", " ", "I", "n", "t", "e", "r", "n">>
      [] str = "Remote" -> <<"R", "e", "m", "o", "t", "e">>
      [] str = "Toronto" -> <<"T", "o", "r", "o", "n", "t", "o">>
      [] str = "Berlin" -> <<"B", "e", "r", "l", "i", "n">>
      [] str = "" -> << >>
      [] str = "ai" -> <<"a", "i">>
      [] str = "sales engineer" -> <<"s", "a", "l", "e", "s", " ", "e", "n", "g", "i", "n", "e", "e", "r">>
      [] str = "presales" -> <<"p", "r", "e", "s", "a", "l", "e", "s">>
      [] str = "ml engineer" -> <<"m", "l", " ", "e", "n", "g", "i", "n", "e", "e", "r">>
      [] str = "remote" -> <<"r", "e", "m", "o", "t", "e">>
      [] str = "toronto" -> <<"t", "o", "r", "o", "n", "t", "o">>
      [] str = "Intern" -> <<"I", "n", "t", "e", "r", "n">>

UpperCase == <<"A", "B", "C", "D", "E", "F", "G", "H", "I", "J", "K", "L", "M", "N", "O", "P", "Q", "R", "S", "T", "U", "V", "W", "X", "Y", "Z">>
LowerCase == <<"a", "b", "c", "d", "e", "f", "g", "h", "i", "j", "k", "l", "m", "n", "o", "p", "q", "r", "s", "t", "u", "v", "w", "x", "y", "z">>

\* String.prototype.toLowerCase, on one character and on a string
toLowerChar(c) ==
    IF \E k \in 1..Len(UpperCase) : UpperCase[k] = c
    THEN LowerCase[CHOOSE k \in 1..Len(UpperCase) : UpperCase[k] = c]
    ELSE c

toLowerCase(text) == [k \in 1..Len(text) |-> toLowerChar(text[k])]

StartsWith(text, word) ==
    /\ Len(word) <= Len(text)
    /\ \A k \in 1..Len(word) : text[k] = word[k]

RECURSIVE includes(_, _)
\* String.prototype.includes: the text is scanned for the word from the left
includes(text, word) ==
    IF StartsWith(text, word) THEN TRUE
    ELSE IF text = << >> THEN FALSE
    ELSE includes(Tail(text), word)

\* Array.prototype.some over a list of keywords
some(keywords, text) ==
    \E k \in 1..Len(keywords) : includes(text, toLowerCase(Chars(keywords[k])))

\* a posting with a matching role kept without a look at the exclude list
filterJobsRolesFirst(flt, jobs) ==
    SelectSeq(jobs, LAMBDA job :
        LET titleLower == toLowerCase(Chars(job.title))
            locationLower == toLowerCase(Chars(OrElse(job.location, "")))
            matchesRole == Len(flt.roles) = 0 \/ some(flt.roles, titleLower)
            matchesLocation == Len(flt.locations) = 0 \/ some(flt.locations, locationLower)
            shouldExclude == ~some(flt.roles, titleLower) /\ some(flt.exclude, titleLower)
        IN  matchesRole /\ matchesLocation /\ ~shouldExclude)

\* greenhouse.js:120-142
filterJobs(flt, jobs) ==
    SelectSeq(jobs, LAMBDA job :
        LET titleLower == toLowerCase(Chars(job.title))
            locationLower == toLowerCase(Chars(OrElse(job.location, "")))
            matchesRole == Len(flt.roles) = 0 \/ some(flt.roles, titleLower)
            matchesLocation == Len(flt.locations) = 0 \/ some(flt.locations, locationLower)
            shouldExclude == some(flt.exclude, titleLower)
        IN  matchesRole /\ matchesLocation /\ ~shouldExclude)

\* greenhouse.js:148-170: scrape() returns filterJobs of what it fetched, or rejects
scrape(flt, outcome) ==
    IF outcome.status = "fulfilled"
    THEN [status |-> "fulfilled", value |-> filterJobs(flt, outcome.value)]
    ELSE outcome

\* config.filters as shipped, a few keywords of each list
configFilters ==
    [roles |-> <<"ai", "sales engineer", "presales", "ml engineer">>,
     locations |-> <<"remote", "toronto">>,
     exclude |-> << >>]

----------------------------------------------------------------------------
\* Inputs.

\* the postings handed to markJobSeen by a direct caller of the store
ApiJobs ==
    {Job("lever-1", "Sales Engineer", "Acme", "u1", "Lever"),
     Job("lever-1", "Solutions Engineer", "Acme Inc", "u2", "LinkedIn"),
     Job("yc-1", "", "undefined", "u3", "Y Combinator")}

OldRecord(i, first, last) ==
    [id |-> i, title |-> "Sales Engineer", company |-> "Acme", url |-> "u1",
     source |-> "Lever", firstSeen |-> first, lastSeen |-> last]

\* a file left by an earlier run: one record past the horizon, one inside it
OldFile ==
    JsonFile([k \in {"lever-1", "yc-1"} |->
        IF k = "lever-1" THEN OldRecord(k, 0 - 31, 0 - 1) ELSE OldRecord(k, 0 - 29, 0 - 29)])

InitDisks == {NoFile, Corrupt, OldFile}

NoCalls == [id \in Ids |-> << >>]

----------------------------------------------------------------------------
\* Configuration and the postings the sources can return.

\* expressions accepted by cron.validate
ValidCron == {"0 * * * *", "*/30 * * * *"}

cronValidate(expr) == expr \in ValidCron

\* config.schedule as shipped, with both timers on, with jobCheck off, with a bad jobCheck, with a bad emailCheck
ScheduleConfigs ==
    {[jobCheck |-> "0 * * * *", emailCheck |-> Null],
     [jobCheck |-> "0 * * * *", emailCheck |-> "*/30 * * * *"],
     [jobCheck |-> Null, emailCheck |-> "*/30 * * * *"],
     [jobCheck |-> "hourly", emailCheck |-> "*/30 * * * *"],
     [jobCheck |-> "0 * * * *", emailCheck |-> "every half hour"]}

TaskNames == {"jobCheck", "emailCheck"}

\* bot.js:161-164: the handler registered under each task name
HandlerOf(name) == IF name = "jobCheck" THEN "checkForNewJobs" ELSE "checkLinkedInEmails"

\* a normalized posting: the scrapers set location, the LinkedIn parser does not
At(job, loc) ==
    [id |-> job.id, title |-> job.title, company |-> job.company, url |-> job.url,
     source |-> job.source, location |-> loc]

pL == At(Job("lever-1", "Sales Engineer", "Acme", "u1", "Lever"), "Remote")
pG == At(Job("greenhouse-1", "AI Lead", "Beta", "u2", "Greenhouse"), "Toronto")
pW == At(Job("wellfound-1", "Presales", "Gamma", "u3", "Wellfound"), "Remote")
pY == At(Job("yc-1", "ML Engineer", "Delta", "u4", "Y Combinator"), "Toronto")
pY2 == At(Job("yc-1", "Sr ML Engineer", "Delta", "u4", "Y Combinator"), "Toronto")
pK == At(Job("linkedin-1", "Job Opportunity", "undefined", "u5", "LinkedIn"), "undefined")
\* postings that config.filters turns down: by the role, by the location
pX == At(Job("lever-2", "Chef", "Acme", "u6", "Lever"), "Remote")
pB == At(Job("greenhouse-2", "Sales Engineer", "Beta", "u7", "Greenhouse"), "Berlin")

\* bot.js:92, in the order of the Promise.allSettled array
scraperNames == <<"Lever", "Greenhouse", "Wellfound", "Y Combinator">>

Rejected == [status |-> "rejected", value |-> << >>]
Fulfilled(jobs) == [status |-> "fulfilled", value |-> jobs]

\* what the four scrapers can fetch before they filter: every scraper delivers,
\* one or two reject, the YC page lists a job twice, nothing matches, one posting alone
Fetched ==
    {<<Fulfilled(<<pL, pX>>), Fulfilled(<<pG>>), Fulfilled(<<pW>>), Fulfilled(<<pY>>)>>,
     <<Rejected, Fulfilled(<<pB, pG>>), Fulfilled(<<pW>>), Fulfilled(<<pY>>)>>,
     <<Fulfilled(<<pL>>), Rejected, Fulfilled(<< >>), Fulfilled(<<pY, pY2>>)>>,
     <<Fulfilled(<<pX>>), Fulfilled(<<pB>>), Rejected, Rejected>>,
     <<Fulfilled(<<pL>>), Fulfilled(<< >>), Fulfilled(<< >>), Fulfilled(<< >>)>>}

\* what the four scrape() calls settle with
ScrapeResults ==
    {[k \in 1..Len(scraperNames) |-> scrape(configFilters, raw[k])] : raw \in Fetched}

\* what linkedinParser.parse() can settle with; two alert emails can carry one job
ParseResults == {<<Rejected>>, <<Fulfilled(<< >>)>>, <<Fulfilled(<<pK>>)>>, <<Fulfilled(<<pK, pK>>)>>}

----------------------------------------------------------------------------
\* src/bot.js: the pure parts of the handlers

RECURSIVE CollectUntilRejected(_)
\* the results taken only up to the first rejection
CollectUntilRejected(results) ==
    IF results = << >> \/ Head(results).status # "fulfilled" THEN << >>
    ELSE Head(results).value \o CollectUntilRejected(Tail(results))

RECURSIVE Collect(_)
\* bot.js:91-99: allJobs.push(...result.value) for every fulfilled result, in order
Collect(results) ==
    IF results = << >> THEN << >>
    ELSE (IF Head(results).status = "fulfilled" THEN Head(results).value ELSE << >>)
         \o Collect(Tail(results))

\* the candidate batch passed on unfiltered
NewJobsUnfiltered(store, allJobs) == allJobs

\* bot.js:105: allJobs.filter(job => !dedup.hasSeenJob(job.id))
NewJobs(store, allJobs) == SelectSeq(allJobs, LAMBDA job : ~hasSeenJob(store, job.id))

\* the marking left for after delivery
MarkAllLater(store, jobs, t) == store

RECURSIVE MarkAllSweeping(_, _, _)
MarkAllSweeping(store, jobs, t) ==
    IF jobs = << >> THEN cleanOldEntries(store, t)
    ELSE MarkAllSweeping(markJobSeen(store, Head(jobs).id, Head(jobs), t), Tail(jobs), t)

RECURSIVE MarkAll(_, _, _)
\* bot.js:111: newJobs.forEach(job => dedup.markJobSeen(job.id, job))
MarkAll(store, jobs, t) ==
    IF jobs = << >> THEN store
    ELSE MarkAll(markJobSeen(store, Head(jobs).id, Head(jobs), t), Tail(jobs), t)

Min(a, b) == IF a < b THEN a ELSE b

\* the whole new set taken as the batch
BatchUncapped(jobs) == jobs

\* bot.js:61: jobs.slice(0, maxBatchSize)
Batch(jobs) == SubSeq(jobs, 1, Min(maxBatchSize, Len(jobs)))

IdsOf(jobs) == {jobs[k].id : k \in 1..Len(jobs)}

----------------------------------------------------------------------------
\* State of the bot.

\* one execution of a handler: where it stands and its locals
StartedRun(handler, via) ==
    [pc |-> "fetch", handler |-> handler, via |-> via, results |-> << >>,
     allJobs |-> << >>, newJobs |-> << >>, i |-> 0]

Running == BagToSet(runs)

\* executions in progress of one handler, started one way
InProgress(handler, via) ==
    BagCardinality([run \in {x \in Running : x.handler = handler /\ x.via = via} |-> runs[run]])

Replace(run, next) == (runs (-) SetToBag({run})) (+) SetToBag({next})

NoClaims == [id \in Ids |-> 0]

\* the process has not been stopped yet
NoLoss == [shutdowns |-> 0, ids |-> {}, channel |-> [id \in Ids |-> 0], careerChannel |-> Null]

\* no scrape() of an adapter has been called
NoAdapter == [companies |-> << >>, status |-> "idle"]

\* no parse() has been called
NoMailbox ==
    [results |-> 0, parsed |-> {}, failed |-> {}, fetchEnded |-> FALSE, timer |-> "unset",
     state |-> "idle", jobs |-> << >>, resolved |-> [defined |-> FALSE, value |-> << >>]]

\* filterJobs has not returned yet
NoResult == [defined |-> FALSE, value |-> << >>]

InitDedup ==
    /\ seenJobs = EmptyStore
    /\ disk \in InitDisks
    /\ writable \in BOOLEAN
    /\ now = 0
    /\ calls = NoCalls
    /\ careerChannel = Null
    /\ schedule = [jobCheck |-> Null, emailCheck |-> Null]
    /\ tasks = {}
    /\ started = FALSE
    /\ runs = EmptyBag
    /\ channel = [id \in Ids |-> 0]
    /\ dropped = {}
    /\ claimed = NoClaims
    /\ sweep = NoSweep
    /\ caught = {}
    /\ lost = NoLoss
    /\ filters = configFilters
    /\ fetched = << >>
    /\ kept = NoResult
    /\ page = << >>
    /\ fetches = << >>
    /\ adapter = NoAdapter
    /\ mailbox = NoMailbox

Init ==
    /\ seenJobs = EmptyStore
    /\ disk \in InitDisks
    /\ writable \in BOOLEAN
    /\ now = 0
    /\ calls = NoCalls
    /\ careerChannel = Null
    /\ schedule \in ScheduleConfigs
    \* with both expressions set and jobCheck valid the bot is followed from a first start only
    /\ (cronValidate(schedule.jobCheck) /\ schedule.emailCheck # Null) => (disk = NoFile /\ writable)
    /\ tasks = {}
    /\ started = FALSE
    /\ runs = EmptyBag
    /\ channel = [id \in Ids |-> 0]
    /\ dropped = {}
    /\ claimed = NoClaims
    /\ sweep = NoSweep
    /\ caught = {}
    /\ lost = NoLoss
    /\ filters = configFilters
    /\ fetched = << >>
    /\ kept = NoResult
    /\ page = << >>
    /\ fetches = << >>
    /\ adapter = NoAdapter
    /\ mailbox = NoMailbox

Tick ==
    /\ now < MaxTime
    /\ now' = now + 1
    /\ UNCHANGED <<seenJobs, disk, writable, calls, sweep>>

----------------------------------------------------------------------------
\* src/services/scheduler.js

\* a task created for every handler, whatever its expression
startAll(sched) == TaskNames

startUnvalidated(sched) == {name \in TaskNames : sched[name] # Null}

\* start(): a task is created for a name whose expression is set and valid
start(sched) == {name \in TaskNames : sched[name] # Null /\ cronValidate(sched[name])}

\* the cron callback of a task fires: the handler is called, whatever else is running
CronFire(name) ==
    /\ started
    /\ name \in tasks
    /\ BagCardinality(runs) < MaxRuns
    /\ runs' = runs (+) SetToBag({StartedRun(HandlerOf(name), "cron")})
    /\ UNCHANGED <<careerChannel, schedule, tasks, started, channel, dropped, claimed, caught, lost>>
    /\ UNCHANGED dedupVars
    /\ UNCHANGED filterVars /\ UNCHANGED scrapeVars

\* trigger(taskName, handler): the handler is called at once
Trigger(name) ==
    /\ started
    /\ BagCardinality(runs) < MaxRuns
    /\ runs' = runs (+) SetToBag({StartedRun(HandlerOf(name), "trigger")})
    /\ UNCHANGED <<careerChannel, schedule, tasks, started, channel, dropped, claimed, caught, lost>>
    /\ UNCHANGED dedupVars
    /\ UNCHANGED filterVars /\ UNCHANGED scrapeVars

----------------------------------------------------------------------------
\* src/bot.js: the handlers, step by step between their awaits

\* ClientReady: resolve the channel, dedup.init(), scheduler.start(), first check
ClientReady ==
    /\ ~started
    /\ started' = TRUE
    /\ \/ \* client.channels.fetch rejects: the handler ends there
          /\ UNCHANGED <<careerChannel, tasks, runs, seenJobs, disk, sweep>>
       \/ /\ careerChannel' \in {Null, "career"}
          /\ IF initThrows(disk)
             THEN UNCHANGED <<tasks, runs, seenJobs, disk, sweep>>
             ELSE /\ seenJobs' = initStore(disk, now)
                  /\ disk' = initDisk(disk, now, writable)
                  /\ sweep' = initSweep(disk, now, sweep)
                  /\ tasks' = start(schedule)
                  /\ runs' = SetToBag({StartedRun("checkForNewJobs", "startup")})
    /\ UNCHANGED <<schedule, channel, dropped, claimed, writable, now, calls, caught, lost>>
    /\ UNCHANGED filterVars /\ UNCHANGED scrapeVars

\* the task whose cron callback calls the handler
TaskOf(handler) == IF handler = "checkForNewJobs" THEN "jobCheck" ELSE "emailCheck"

\* who awaits the handler: the cron callback of its task, scheduler.trigger, or ClientReady
CallerOf(run) ==
    IF run.via = "cron" THEN TaskOf(run.handler)
    ELSE IF run.via = "trigger" THEN "trigger" ELSE "ClientReady"

\* every failure inside a handler rethrown to its caller
EscapesUncaught(handler, failure) == TRUE

\* whether a failed fetch or a failed send leaves the handler as a rejection:
\* bot.js:83-102 awaits Promise.allSettled inside try/catch, bot.js:135-137
\* catches what parse() throws, bot.js:50-52 catches what send() throws
Escapes(handler, failure) == FALSE

\* bot.js:91-117, 128-137: the handler from the settled results of its fetch to its first send
Continue(run, results) ==
    /\ IF Escapes(run.handler, "fetch") /\ \E k \in 1..Len(results) : results[k].status = "rejected"
       THEN \* the handler's promise rejects and its caller sees the failure
            /\ runs' = runs (-) SetToBag({run})
            /\ caught' = caught \cup {CallerOf(run)}
            /\ UNCHANGED <<seenJobs, disk, claimed>>
       ELSE IF run.handler = "checkLinkedInEmails" /\ results[1].status = "rejected"
       THEN \* bot.js:135-137: the rejection of parse() is caught and the handler returns
            /\ runs' = runs (-) SetToBag({run})
            /\ UNCHANGED <<seenJobs, disk, claimed, caught>>
       ELSE LET allJobs == Collect(results)
                newJobs == NewJobs(seenJobs, allJobs)
            IN  /\ seenJobs' = MarkAll(seenJobs, newJobs, now)
                /\ disk' = IF newJobs = << >> THEN disk ELSE save(seenJobs', disk, writable)
                /\ claimed' = [id \in Ids |->
                       IF id \in IdsOf(newJobs) THEN claimed[id] + 1 ELSE claimed[id]]
                /\ runs' = IF newJobs = << >>
                           THEN \* bot.js:115-117: nothing new, the handler returns
                                runs (-) SetToBag({run})
                           ELSE \* bot.js:114: postJobs(newJobs) is entered
                                Replace(run,
                                   [run EXCEPT !.pc = "loop", !.results = results,
                                               !.allJobs = allJobs, !.newJobs = newJobs, !.i = 1])
                /\ UNCHANGED caught
    /\ UNCHANGED <<careerChannel, schedule, tasks, started, channel, dropped, writable, now, calls, sweep, lost>>
    /\ UNCHANGED filterVars /\ UNCHANGED scrapeVars

\* the awaited fetch settles and the handler runs on to its first send
Aggregate(run) ==
    /\ run.pc = "fetch"
    /\ \E results \in (IF run.handler = "checkForNewJobs" THEN ScrapeResults ELSE ParseResults) :
        Continue(run, results)

\* a failed send ending the loop
AfterPostJobAbort(run, outcome) ==
    IF outcome = "failed"
    THEN [run EXCEPT !.i = Len(Batch(run.newJobs)) + 1, !.results = << >>, !.allJobs = << >>]
    ELSE [run EXCEPT !.pc = "delay", !.results = << >>, !.allJobs = << >>]

\* the loop going straight on to the next posting
AfterPostJobNoDelay(run, outcome) == [run EXCEPT !.i = @ + 1, !.results = << >>, !.allJobs = << >>]

\* bot.js:63-66: postJob has returned, whatever became of the send, and the loop awaits its delay
AfterPostJob(run, outcome) == [run EXCEPT !.pc = "delay", !.results = << >>, !.allJobs = << >>]

\* postJobs, one turn of the for loop: postJob(batch[i]), or the end of the loop
Loop(run) ==
    /\ run.pc = "loop"
    /\ LET batch == Batch(run.newJobs)
           job == batch[run.i]
       IN  IF run.i <= Len(batch)
           THEN \/ \* bot.js:41-44: no channel, nothing is sent
                   /\ careerChannel = Null
                   /\ runs' = Replace(run, AfterPostJob(run, "skipped"))
                   /\ UNCHANGED <<channel, dropped, caught>>
                \/ \* bot.js:48: the message reaches the channel
                   /\ careerChannel # Null
                   /\ runs' = Replace(run, AfterPostJob(run, "sent"))
                   /\ channel' = [channel EXCEPT ![job.id] = @ + 1]
                   /\ UNCHANGED <<dropped, caught>>
                \/ \* bot.js:50-52: send() rejects, the error is logged
                   /\ careerChannel # Null
                   /\ IF Escapes(run.handler, "send")
                      THEN /\ runs' = runs (-) SetToBag({run})
                           /\ caught' = caught \cup {CallerOf(run)}
                      ELSE /\ runs' = Replace(run, AfterPostJob(run, "failed"))
                           /\ UNCHANGED caught
                   /\ UNCHANGED <<channel, dropped>>
           ELSE \* bot.js:69-71, then the handler returns
                /\ runs' = runs (-) SetToBag({run})
                /\ dropped' = dropped \cup
                       (IdsOf(SubSeq(run.newJobs, Len(batch) + 1, Len(run.newJobs))) \ IdsOf(batch))
                /\ UNCHANGED <<channel, caught>>
    /\ UNCHANGED <<careerChannel, schedule, tasks, started, claimed, lost>>
    /\ UNCHANGED dedupVars
    /\ UNCHANGED filterVars /\ UNCHANGED scrapeVars

\* bot.js:66: the postDelay timer of the loop elapses
Delay(run) ==
    /\ run.pc = "delay"
    /\ runs' = Replace(run, [run EXCEPT !.pc = "loop", !.i = @ + 1])
    /\ UNCHANGED <<careerChannel, schedule, tasks, started, channel, dropped, claimed, caught, lost>>
    /\ UNCHANGED dedupVars
    /\ UNCHANGED filterVars /\ UNCHANGED scrapeVars

Next ==
    \/ ClientReady
    \/ \E name \in TaskNames : CronFire(name)
    \/ \E run \in Running : Aggregate(run)
    \/ \E run \in Running : Loop(run)
    \/ \E run \in Running : Delay(run)

\* the bot as shipped: nothing in the repository calls scheduler.trigger
Spec == Init /\ [][Next]_vars

\* the bot with an operator calling scheduler.trigger
NextOperator ==
    \/ Next
    \/ \E name \in TaskNames : Trigger(name)

SpecOperator == Init /\ [][NextOperator]_vars

\* the catch block stopping the task
TasksAfterFailureStopped(scheduled, name) == scheduled \ {name}

\* scheduler.js:30-32: the catch block logs and touches no task
TasksAfterFailure(scheduled, name) == scheduled

\* scheduler.js:28-32: the awaited handler rejects and the cron callback catches it
HandlerRejects(run) ==
    /\ run.via = "cron"
    /\ runs' = runs (-) SetToBag({run})
    /\ caught' = caught \cup {TaskOf(run.handler)}
    /\ tasks' = TasksAfterFailure(tasks, TaskOf(run.handler))
    /\ UNCHANGED <<careerChannel, schedule, started, channel, dropped, claimed, lost>>
    /\ UNCHANGED dedupVars
    /\ UNCHANGED filterVars /\ UNCHANGED scrapeVars

\* a first start of the bot on a writable directory, config.schedule as shipped
InitScheduler ==
    /\ Init
    /\ disk = NoFile
    /\ writable
    /\ schedule = [jobCheck |-> "0 * * * *", emailCheck |-> Null]

NextScheduler ==
    \/ Next
    \/ \E run \in Running : HandlerRejects(run)

\* the scheduler with handlers that can reject
SpecScheduler == InitScheduler /\ [][NextScheduler]_vars

\* the event loop runs every continuation that is ready, and the timers keep firing
Fairness ==
    /\ WF_vars(ClientReady)
    /\ \A name \in TaskNames : WF_vars(CronFire(name))
    /\ WF_vars(\E run \in Running : Aggregate(run))
    /\ WF_vars(\E run \in Running : Loop(run))
    /\ WF_vars(\E run \in Running : Delay(run))

FairSpec == Spec /\ Fairness

\* an operator calling scheduler.trigger on a first start, the event loop running on
SpecTrigger == InitScheduler /\ [][NextOperator]_vars /\ Fairness

----------------------------------------------------------------------------
\* checkForNewJobs with its four scrape() promises followed one by one. In
\* Aggregate the fetch is one step; here each promise settles in a step of its
\* own, in any order.

Pending == [status |-> "pending", value |-> << >>]

\* bot.js:84-89: the array literal calls the four scrape() functions, one after
\* the other and without an await between them, and each returns its promise
StartScrapers(run) ==
    /\ run.pc = "fetch" /\ run.handler = "checkForNewJobs"
    /\ run.results = << >>
    /\ runs' = Replace(run, [run EXCEPT !.results = [k \in 1..Len(scraperNames) |-> Pending]])
    /\ UNCHANGED <<careerChannel, schedule, tasks, started, channel, dropped, claimed, caught, lost>>
    /\ UNCHANGED dedupVars
    /\ UNCHANGED filterVars /\ UNCHANGED scrapeVars

\* one scrape() promise fulfils or rejects
ScraperSettles(run, k) ==
    /\ run.pc = "fetch" /\ run.results # << >>
    /\ run.results[k] = Pending
    /\ \E outcome \in ScrapeResults :
        /\ \A j \in 1..Len(scraperNames) : run.results[j] # Pending => run.results[j] = outcome[j]
        /\ runs' = Replace(run, [run EXCEPT !.results[k] = outcome[k]])
    /\ UNCHANGED <<careerChannel, schedule, tasks, started, channel, dropped, claimed, caught, lost>>
    /\ UNCHANGED dedupVars
    /\ UNCHANGED filterVars /\ UNCHANGED scrapeVars

\* the await resumed by the first promise that settles
anySettled(results) == \E k \in 1..Len(results) : results[k] # Pending

\* bot.js:84: Promise.allSettled resolves once none of the promises is pending
allSettled(results) == results # << >> /\ \A k \in 1..Len(results) : results[k] # Pending

\* bot.js:84-117: the await resumes and the handler runs on to its first send
AggregateSettled(run) ==
    /\ run.pc = "fetch"
    /\ allSettled(run.results)
    /\ Continue(run, run.results)

NextFetch ==
    \/ ClientReady
    \/ \E run \in Running : StartScrapers(run)
    \/ \E run \in Running : \E k \in 1..Len(scraperNames) : ScraperSettles(run, k)
    \/ \E run \in Running : AggregateSettled(run)
    \/ \E run \in Running : Loop(run)
    \/ \E run \in Running : Delay(run)

\* the startup check of a first start, promise by promise
SpecFetch == InitScheduler /\ [][NextFetch]_vars

----------------------------------------------------------------------------
\* The store driven through its exported functions.

\* the calls that left a loaded record: the one that created it, the last one after it
CallsOf(store) ==
    [id \in Ids |->
        IF id \notin DOMAIN store THEN << >>
        ELSE IF store[id].firstSeen = store[id].lastSeen THEN <<store[id].firstSeen>>
        ELSE <<store[id].firstSeen, store[id].lastSeen>>]

DedupInit ==
    /\ ~initThrows(disk)
    /\ seenJobs' = initStore(disk, now)
    /\ disk' = initDisk(disk, now, writable)
    /\ sweep' = initSweep(disk, now, sweep)
    /\ calls' = CallsOf(seenJobs')
    /\ UNCHANGED <<writable, now>>

\* the exported cleanOldEntries called on the cache: the file is rewritten if anything went
DedupCleanOldEntries ==
    /\ seenJobs' = cleanOldEntries(seenJobs, now)
    /\ disk' = IF Expired(seenJobs, now) # {} THEN save(seenJobs', disk, writable) ELSE disk
    /\ sweep' = Sweep(seenJobs, now)
    /\ calls' = [id \in Ids |-> IF id \in Expired(seenJobs, now) THEN << >> ELSE calls[id]]
    /\ UNCHANGED <<writable, now>>

DedupMarkJobSeen ==
    \E job \in ApiJobs :
        /\ Len(calls[job.id]) < MaxCalls
        /\ seenJobs' = markJobSeen(seenJobs, job.id, job, now)
        /\ disk' = save(seenJobs', disk, writable)
        /\ calls' = [calls EXCEPT ![job.id] = Append(@, now)]
        /\ UNCHANGED <<writable, now, sweep>>

\* the file system starts or stops accepting writes
FsChange ==
    /\ writable' = ~writable
    /\ UNCHANGED <<seenJobs, disk, now, calls, sweep>>

DedupNext ==
    \/ DedupInit /\ UNCHANGED botVars /\ UNCHANGED filterVars /\ UNCHANGED scrapeVars
    \/ DedupCleanOldEntries /\ UNCHANGED botVars /\ UNCHANGED filterVars /\ UNCHANGED scrapeVars
    \/ DedupMarkJobSeen /\ UNCHANGED botVars /\ UNCHANGED filterVars /\ UNCHANGED scrapeVars
    \/ FsChange /\ UNCHANGED botVars /\ UNCHANGED filterVars /\ UNCHANGED scrapeVars
    \/ Tick /\ UNCHANGED botVars /\ UNCHANGED filterVars /\ UNCHANGED scrapeVars

SpecDedup == InitDedup /\ [][DedupNext]_vars

----------------------------------------------------------------------------
\* filterJobs driven directly, over rule sets and fetched lists.

\* longest list handed to filterJobs
MaxFetched == 2

pI == At(Job("lever-2", "AI Intern", "Acme", "u8", "Lever"), "Remote")

\* config.filters with each list empty or not; a keyword may be written in capitals
FilterConfigs ==
    {[roles |-> r, locations |-> l, exclude |-> e] :
        r \in {<< >>, <<"ai", "sales engineer">>},
        l \in {<< >>, <<"remote", "toronto">>},
        e \in {<< >>, <<"Intern">>}}

FilterPostings == {pL, pG, pX, pB, pI, pK}

FilterInputs == UNION {[1..n -> FilterPostings] : n \in 0..MaxFetched}

\* a scraper is about to filter what it fetched; nothing else is running
InitFilter ==
    /\ filters \in FilterConfigs
    /\ fetched \in FilterInputs
    /\ kept = NoResult
    /\ seenJobs = EmptyStore
    /\ disk = NoFile
    /\ writable = TRUE
    /\ now = 0
    /\ calls = NoCalls
    /\ careerChannel = Null
    /\ schedule = [jobCheck |-> Null, emailCheck |-> Null]
    /\ tasks = {}
    /\ started = FALSE
    /\ runs = EmptyBag
    /\ channel = [id \in Ids |-> 0]
    /\ dropped = {}
    /\ claimed = NoClaims
    /\ sweep = NoSweep
    /\ caught = {}
    /\ lost = NoLoss
    /\ page = << >>
    /\ fetches = << >>
    /\ adapter = NoAdapter
    /\ mailbox = NoMailbox

FilterJobsCall ==
    /\ ~kept.defined
    /\ kept' = [defined |-> TRUE, value |-> filterJobs(filters, fetched)]
    /\ UNCHANGED <<filters, fetched>>
    /\ UNCHANGED dedupVars
    /\ UNCHANGED botVars
    /\ UNCHANGED scrapeVars

SpecFilter == InitFilter /\ [][FilterJobsCall]_vars

----------------------------------------------------------------------------
\* src/scrapers/*.js, src/utils/logger.js (Lever API), src/unnamed/part_001
\* (LinkedIn): how a source entry becomes a posting. An entry is what the page,
\* the API or the email carries: the title text, the href as its path segments
\* (<< >> when the link has none, a last segment "" when it ends in a slash)
\* and the id the source itself gives (job.id, data-job-id; "" when absent).
\* A built id is the parts its template string interpolates, and the
\* Date.now() reading when the template takes one (NoStamp otherwise).

\* entries on one page
MaxListed == 2
\* fetches of one page
MaxFetches == 2

sources == {"Lever", "Greenhouse", "Wellfound", "Wellfound cards", "Y Combinator", "LinkedIn"}

NoStamp == -1

Entry(title, href, key) == [title |-> title, href |-> href, key |-> key]

Hrefs ==
    {<< >>, <<"jobs", "ml-engineer">>, <<"jobs", "ml-engineer", "">>, <<"jobs", "view", "7?refId=x">>}

Entries == {Entry(title, href, key) : title \in {"", "ML Engineer"}, href \in Hrefs, key \in {"", "7"}}

Pages ==
    {[source |-> src, entries |-> entries] :
        src \in sources, entries \in UNION {[1..n -> Entries] : n \in 0..MaxListed}}

\* jobUrl.split('/').pop()
pop(href) == href[Len(href)]

\* segment.split('?')[0]
beforeQuery(segment) == IF segment = "7?refId=x" THEN "7" ELSE segment

\* href.match(/jobs\/view\/(\d+)/): the digits after jobs/view/, "" without a match
viewId(href) ==
    IF Len(href) >= 3 /\ href[1] = "jobs" /\ href[2] = "view" /\ beforeQuery(href[3]) = "7"
    THEN "7" ELSE ""

\* `${value}` of a field that may be missing
Interpolated(value) == IF value = "" THEN "undefined" ELSE value

\* jobUrl.startsWith('http') ? jobUrl : `${BASE_URL}${jobUrl}`
Resolve(base, href) == IF href # << >> /\ href[1] = "https:" THEN href ELSE <<base>> \o href

BuiltId(source, parts, stamp) == [source |-> source, parts |-> parts, stamp |-> stamp]

\* the id a scraper gives the posting it builds from an entry, fetched at t
scrapedId(source, entry, t) ==
    CASE source = "Lever" ->
            \* logger.js:64  `lever-${company}-${job.id}`
            BuiltId("lever", <<"acme", Interpolated(entry.key)>>, NoStamp)
      [] source = "Greenhouse" ->
            \* greenhouse.js:48-51  jobUrl.split('/').pop().split('?')[0]
            BuiltId("greenhouse", <<"acme", beforeQuery(pop(entry.href))>>, NoStamp)
      [] source = "Wellfound cards" ->
            \* wellfound.js:81-84  jobUrl.split('/').pop() || `${company}-${title}`
            BuiltId("wellfound",
                    IF pop(entry.href) # "" THEN <<pop(entry.href)>> ELSE <<"Acme", entry.title>>, NoStamp)
      [] source = "Wellfound" ->
            \* wellfound.js:109-112  jobUrl.split('/').pop() || Date.now()
            IF pop(entry.href) # "" THEN BuiltId("wellfound", <<pop(entry.href)>>, NoStamp)
            ELSE BuiltId("wellfound", << >>, t)
      [] source = "Y Combinator" ->
            \* ycombinator.js:74-77  $job.attr('data-job-id') || jobUrl.split('/').pop() || Date.now()
            IF entry.key # "" THEN BuiltId("yc", <<entry.key>>, NoStamp)
            ELSE IF pop(entry.href) # "" THEN BuiltId("yc", <<pop(entry.href)>>, NoStamp)
            ELSE BuiltId("yc", << >>, t)
      [] source = "LinkedIn" ->
            \* part_001:47-50  `linkedin-${match[1]}`
            BuiltId("linkedin", <<viewId(entry.href)>>, NoStamp)

\* whether the scraper builds a posting from the entry at all
pushed(source, entry) ==
    CASE source = "Lever" -> TRUE                           \* logger.js:62-74: every element of data
      [] source = "LinkedIn" -> viewId(entry.href) # ""     \* part_001:46-47
      [] OTHER -> entry.title # "" /\ entry.href # << >>    \* if (title && jobUrl)

\* the posting built from entry k of the page
built(source, entry, k, t) ==
    [id |-> scrapedId(source, entry, t),
     title |-> CASE source = "Lever" -> OrElse(entry.title, "Unknown Title")        \* logger.js:65
                 [] source = "LinkedIn" -> OrElse(entry.title, "Job Opportunity")   \* part_001:51
                 [] OTHER -> entry.title,
     url |-> CASE source = "Lever" ->                                               \* logger.js:70
                    IF entry.href # << >> THEN entry.href
                    ELSE <<"https://jobs.lever.co", "acme", Interpolated(entry.key)>>
               [] source = "LinkedIn" ->                                            \* part_001:53
                    <<"https://www.linkedin.com", "jobs", "view", viewId(entry.href), "">>
               [] OTHER -> Resolve("https://" \o source, entry.href),
     entry |-> k]

RECURSIVE extract(_, _, _, _, _)
\* the loop over the entries from entry k on; LinkedIn skips an id it has pushed already
extract(source, entries, k, t, jobs) ==
    IF k > Len(entries) THEN jobs
    ELSE LET entry == entries[k]
             job == built(source, entry, k, t)
             skip == \/ ~pushed(source, entry)
                     \/ source = "LinkedIn" /\ \E j \in 1..Len(jobs) : jobs[j].id = job.id
         IN  extract(source, entries, k + 1, t, IF skip THEN jobs ELSE Append(jobs, job))

\* scrapeCompany / scrapeJobs / extractJobsFromHtml on one page, called at t
scrapeJobs(source, entries, t) == extract(source, entries, 1, t, << >>)

\* a scraper is about to fetch a page; nothing else is running
InitScrape ==
    /\ page \in Pages
    /\ fetches = << >>
    /\ adapter = NoAdapter
    /\ mailbox = NoMailbox
    /\ filters = configFilters
    /\ fetched = << >>
    /\ kept = NoResult
    /\ seenJobs = EmptyStore
    /\ disk = NoFile
    /\ writable = TRUE
    /\ now = 0
    /\ calls = NoCalls
    /\ careerChannel = Null
    /\ schedule = [jobCheck |-> Null, emailCheck |-> Null]
    /\ tasks = {}
    /\ started = FALSE
    /\ runs = EmptyBag
    /\ channel = [id \in Ids |-> 0]
    /\ dropped = {}
    /\ claimed = NoClaims
    /\ sweep = NoSweep
    /\ caught = {}
    /\ lost = NoLoss

\* one fetch of the page by its scraper
ScrapeJobsCall ==
    /\ Len(fetches) < MaxFetches
    /\ fetches' = Append(fetches, [at |-> now, jobs |-> scrapeJobs(page.source, page.entries, now)])
    /\ UNCHANGED <<page, adapter, mailbox>>
    /\ UNCHANGED dedupVars
    /\ UNCHANGED botVars
    /\ UNCHANGED filterVars

ScrapeNext ==
    \/ ScrapeJobsCall
    \/ Tick /\ UNCHANGED botVars /\ UNCHANGED filterVars /\ UNCHANGED scrapeVars

SpecScrape == InitScrape /\ [][ScrapeNext]_vars

----------------------------------------------------------------------------
\* scrape() of the Lever and Greenhouse adapters: one scrapeCompany(company)
\* promise per configured company, awaited together (greenhouse.js:148-170,
\* logger.js:133-155). A board is what a company's page or API would deliver
\* and where, if anywhere, the fetch or the parse of it fails.

\* config.companies.greenhouse, its first two slugs
companyNames == <<"datadog", "cloudflare">>

NoFailure == -1

Board(listing, cut) == [listing |-> listing, cut |-> cut, promise |-> Pending]

\* a board fails before its first posting (transport error, bad status, a body
\* that does not parse), after some of them, or not at all
Boards ==
    UNION {{Board(listing, cut) : cut \in {NoFailure} \cup 0..Len(listing)} :
            listing \in UNION {[1..n -> {pG, pB}] : n \in 0..MaxListed}}

\* scrapeCompany without its try/catch
scrapeCompanyRethrows(board) ==
    IF board.cut = NoFailure THEN Fulfilled(board.listing) ELSE Rejected

\* greenhouse.js:18-94, logger.js:49-82: the body runs inside try/catch and
\* `return jobs` follows the catch: the postings pushed before the failure
scrapeCompany(board) ==
    Fulfilled(IF board.cut = NoFailure THEN board.listing ELSE SubSeq(board.listing, 1, board.cut))

RECURSIVE flat(_)
\* results.flat()
flat(results) == IF results = << >> THEN << >> ELSE Head(results).value \o flat(Tail(results))

\* Promise.all: rejected once one promise has rejected, fulfilled when all have
PromiseAll(promises) ==
    IF \E c \in 1..Len(promises) : promises[c].status = "rejected" THEN Rejected
    ELSE IF \E c \in 1..Len(promises) : promises[c] = Pending THEN Pending
    ELSE Fulfilled(flat(promises))

PromisesOf(adp) == [c \in 1..Len(adp.companies) |-> adp.companies[c].promise]

\* scrape() has called scrapeCompany for every company and awaits Promise.all
InitAdapter ==
    /\ adapter \in {[companies |-> boards, status |-> "pending"] :
                        boards \in [1..Len(companyNames) -> Boards]}
    /\ mailbox = NoMailbox
    /\ page = << >>
    /\ fetches = << >>
    /\ filters = configFilters
    /\ fetched = << >>
    /\ kept = NoResult
    /\ seenJobs = EmptyStore
    /\ disk = NoFile
    /\ writable = TRUE
    /\ now = 0
    /\ calls = NoCalls
    /\ careerChannel = Null
    /\ schedule = [jobCheck |-> Null, emailCheck |-> Null]
    /\ tasks = {}
    /\ started = FALSE
    /\ runs = EmptyBag
    /\ channel = [id \in Ids |-> 0]
    /\ dropped = {}
    /\ claimed = NoClaims
    /\ sweep = NoSweep
    /\ caught = {}
    /\ lost = NoLoss

\* the scrapeCompany promise of one company settles
ScrapeCompanySettles(c) ==
    /\ adapter.status = "pending"
    /\ adapter.companies[c].promise = Pending
    /\ adapter' = [adapter EXCEPT !.companies[c].promise = scrapeCompany(adapter.companies[c])]
    /\ UNCHANGED <<page, fetches, mailbox>>
    /\ UNCHANGED dedupVars
    /\ UNCHANGED botVars
    /\ UNCHANGED filterVars

\* greenhouse.js:159-169: the await on Promise.all resumes; flat, filterJobs, return
ScrapeSettles ==
    /\ adapter.status = "pending"
    /\ LET all == PromiseAll(PromisesOf(adapter))
           outcome == scrape(filters, all)
       IN  /\ all # Pending
           /\ adapter' = [adapter EXCEPT !.status = outcome.status]
           /\ IF outcome.status = "fulfilled"
              THEN /\ fetched' = all.value
                   /\ kept' = [defined |-> TRUE, value |-> outcome.value]
              ELSE UNCHANGED <<fetched, kept>>
    /\ UNCHANGED <<filters, page, fetches, mailbox>>
    /\ UNCHANGED dedupVars
    /\ UNCHANGED botVars

AdapterNext ==
    \/ \E c \in 1..Len(companyNames) : ScrapeCompanySettles(c)
    \/ ScrapeSettles

SpecAdapter == InitAdapter /\ [][AdapterNext]_vars

----------------------------------------------------------------------------
\* parse() of the LinkedIn parser (part_001:107-223) from the point where the
\* IMAP search has returned its results: the events that follow, in every
\* order the event loop can deliver them. The 'error' events of the fetch and
\* of the connection are not followed.

\* alert emails a search returns
MaxEmails == 3

\* part_001:171-181: the jobs extracted from the body of email m, tagged with its subject
emailJobs(m) ==
    <<[id |-> pK.id, title |-> pK.title, url |-> pK.url, source |-> pK.source, emailSubject |-> m]>>

\* imap.end(): a connection that is open starts closing
imapEnd(state) == IF state = "connected" THEN "ending" ELSE state

\* part_001:155-156: imap.fetch(results) has been called on an open connection
InitParse ==
    /\ mailbox \in {[NoMailbox EXCEPT !.results = n, !.state = "connected"] : n \in 1..MaxEmails}
    /\ adapter = NoAdapter
    /\ page = << >>
    /\ fetches = << >>
    /\ filters = configFilters
    /\ fetched = << >>
    /\ kept = NoResult
    /\ seenJobs = EmptyStore
    /\ disk = NoFile
    /\ writable = TRUE
    /\ now = 0
    /\ calls = NoCalls
    /\ careerChannel = Null
    /\ schedule = [jobCheck |-> Null, emailCheck |-> Null]
    /\ tasks = {}
    /\ started = FALSE
    /\ runs = EmptyBag
    /\ channel = [id \in Ids |-> 0]
    /\ dropped = {}
    /\ claimed = NoClaims
    /\ sweep = NoSweep
    /\ caught = {}
    /\ lost = NoLoss

ParseUnchanged ==
    /\ UNCHANGED <<page, fetches, adapter>>
    /\ UNCHANGED dedupVars
    /\ UNCHANGED botVars
    /\ UNCHANGED filterVars

\* part_001:160-189: the simpleParser callback of message m, without an error
MessageParsed(m) ==
    /\ mailbox.state # "idle"
    /\ m \in 1..mailbox.results /\ m \notin mailbox.parsed \cup mailbox.failed
    /\ mailbox' = [mailbox EXCEPT
            !.parsed = @ \cup {m},
            !.jobs = @ \o emailJobs(m),
            !.state = IF Cardinality(mailbox.parsed) + 1 = mailbox.results THEN imapEnd(@) ELSE @]
    /\ ParseUnchanged

\* part_001:161-164: the callback with an error: logged, `processed` not counted
MessageParseError(m) ==
    /\ mailbox.state # "idle"
    /\ m \in 1..mailbox.results /\ m \notin mailbox.parsed \cup mailbox.failed
    /\ mailbox' = [mailbox EXCEPT !.failed = @ \cup {m}]
    /\ ParseUnchanged

\* part_001:199-206: the fetch has delivered its last message; the 2 s timer is set
FetchEnd ==
    /\ mailbox.state # "idle"
    /\ ~mailbox.fetchEnded
    /\ mailbox' = [mailbox EXCEPT !.fetchEnded = TRUE, !.timer = "armed"]
    /\ ParseUnchanged

\* part_001:201-205: the timer fires and ends a connection that is not disconnected
CloseTimer ==
    /\ mailbox.timer = "armed"
    /\ mailbox' = [mailbox EXCEPT !.timer = "fired", !.state = imapEnd(@)]
    /\ ParseUnchanged

\* part_001:216-219: the connection has closed: resolve(jobs), and the awaiting
\* handler (bot.js:127-128) filters what the array holds at that moment
ConnectionEnd ==
    /\ mailbox.state = "ending"
    /\ mailbox' = [mailbox EXCEPT !.state = "disconnected",
                                  !.resolved = [defined |-> TRUE, value |-> mailbox.jobs]]
    /\ ParseUnchanged

ParseNext ==
    \/ \E m \in 1..MaxEmails : MessageParsed(m)
    \/ \E m \in 1..MaxEmails : MessageParseError(m)
    \/ FetchEnd
    \/ CloseTimer
    \/ ConnectionEnd

SpecParse == InitParse /\ [][ParseNext]_vars

----------------------------------------------------------------------------
\* The bot running for days on a store left by an earlier run: the clock moves
\* on between the cycles.

InitClock ==
    /\ Init
    /\ disk = OldFile
    /\ schedule = [jobCheck |-> "0 * * * *", emailCheck |-> Null]

NextClock ==
    \/ Next
    \/ Tick /\ UNCHANGED botVars /\ UNCHANGED filterVars /\ UNCHANGED scrapeVars

SpecClock == InitClock /\ [][NextClock]_vars

----------------------------------------------------------------------------
\* The process stopped and started again: memory is lost, data/jobs.json stays.

\* shutdowns followed
MaxShutdowns == 1

\* the process is stopped while a delivery is under way
Crash ==
    /\ started
    /\ lost.shutdowns < MaxShutdowns
    /\ \E run \in Running : run.pc \in {"loop", "delay"}
    /\ lost' = [shutdowns |-> lost.shutdowns + 1,
                ids |-> UNION {IdsOf(run.newJobs) : run \in Running},
                channel |-> channel,
                careerChannel |-> careerChannel]
    /\ seenJobs' = EmptyStore
    /\ careerChannel' = Null
    /\ tasks' = {}
    /\ started' = FALSE
    /\ runs' = EmptyBag
    /\ UNCHANGED <<disk, writable, now, calls, sweep, schedule, channel, dropped, claimed, caught>>
    /\ UNCHANGED filterVars /\ UNCHANGED scrapeVars

\* a first start with config.schedule as shipped, on a directory that may refuse writes
InitRestart ==
    /\ Init
    /\ disk = NoFile
    /\ schedule = [jobCheck |-> "0 * * * *", emailCheck |-> Null]

NextRestart ==
    \/ Next
    \/ Crash

SpecRestart == InitRestart /\ [][NextRestart]_vars

----------------------------------------------------------------------------
\* The claims.

Range(seq) == {seq[k] : k \in 1..Len(seq)}

Posting(run) == run.pc \in {"loop", "delay"}

\* the word occurs in the text at some offset
Contains(text, word) ==
    \E k \in 0..(Len(text) - Len(word)) : \A j \in 1..Len(word) : text[k + j] = word[j]

RoleMatch(flt, job) ==
    \E role \in Range(flt.roles) : Contains(toLowerCase(Chars(job.title)), toLowerCase(Chars(role)))

LocationMatch(flt, job) ==
    /\ job.location \notin Falsy
    /\ \E loc \in Range(flt.locations) :
        Contains(toLowerCase(Chars(job.location)), toLowerCase(Chars(loc)))

ExcludeMatch(flt, job) ==
    \E term \in Range(flt.exclude) : Contains(toLowerCase(Chars(job.title)), toLowerCase(Chars(term)))

\* the rule set of spec 4.2
Matches(flt, job) ==
    /\ flt.roles = << >> \/ RoleMatch(flt, job)
    /\ flt.locations = << >> \/ LocationMatch(flt, job)
    /\ ~ExcludeMatch(flt, job)

AtMostOneMessagePerId == \A id \in Ids : channel[id] <= 1

\* C3: while a cycle delivers, every posting of its new set has its record in
\* the store (and in the file when writes succeed), and nothing reaches the
\* channel whose id is not in the store.
MarkBeforeSend ==
    /\ \A run \in Running :
        Posting(run) =>
            \A k \in 1..Len(run.newJobs) :
                /\ hasSeenJob(seenJobs, run.newJobs[k].id)
                /\ seenJobs[run.newJobs[k].id].id = run.newJobs[k].id
                /\ writable =>
                    /\ disk.kind = "json"
                    /\ hasSeenJob(disk.content, run.newJobs[k].id)
    /\ \A id \in Ids : channel[id] > 0 => hasSeenJob(seenJobs, id)

\* a cycle stands before its first send with a new set of two or more
BeforeFirstSend ==
    \E run \in Running :
        /\ run.pc = "loop" /\ run.i = 1
        /\ Len(run.newJobs) >= 2
        /\ \A k \in 1..Len(run.newJobs) : channel[run.newJobs[k].id] = 0

\* C4: a timer's handler never has two executions in progress that the timer started.
TimerNonOverlap ==
    \A name \in TaskNames : InProgress(HandlerOf(name), "cron") <= 1

\* C5: a manual trigger of the job check made while a scheduled job check is
\* running starts no execution of the handler.
ManualTriggerSkipped ==
    [][InProgress("checkForNewJobs", "trigger")' > InProgress("checkForNewJobs", "trigger")
        => InProgress("checkForNewJobs", "cron") = 0]_vars

\* C6: after two or more markJobSeen calls on an id there is exactly one record
\* for it, firstSeen is the clock of the first call and lastSeen that of the last.
IdempotentMarking ==
    \A id \in Ids :
        Len(calls[id]) >= 2 =>
            /\ hasSeenJob(seenJobs, id)
            /\ Cardinality({k \in DOMAIN seenJobs : seenJobs[k].id = id}) = 1
            /\ seenJobs[id].firstSeen = calls[id][1]
            /\ seenJobs[id].lastSeen = calls[id][Len(calls[id])]

\* a record marked twice, on different days
MarkedTwice ==
    \E id \in Ids :
        /\ Len(calls[id]) = 2
        /\ calls[id][1] < calls[id][2]
        /\ hasSeenJob(seenJobs, id)

\* C7: a markJobSeen call on an id that has a record leaves the record's title,
\* company, url, source and firstSeen as they were.
RemarkUpdatesOnlyLastSeen ==
    [][\A job \in ApiJobs :
        (/\ hasSeenJob(seenJobs, job.id)
         /\ calls' = [calls EXCEPT ![job.id] = Append(@, now)]
         /\ seenJobs' = markJobSeen(seenJobs, job.id, job, now))
        => /\ seenJobs'[job.id].title = seenJobs[job.id].title
           /\ seenJobs'[job.id].company = seenJobs[job.id].company
           /\ seenJobs'[job.id].url = seenJobs[job.id].url
           /\ seenJobs'[job.id].source = seenJobs[job.id].source
           /\ seenJobs'[job.id].firstSeen = seenJobs[job.id].firstSeen]_vars

\* C8: in a job check the candidate batch holds the postings of the scrapers
\* that fulfilled, each as often as returned, and none of a scraper that
\* rejected; the cycle goes on to filter, mark and deliver.
PartialFailureIsolation ==
    \A run \in Running :
        (run.handler = "checkForNewJobs" /\ run.pc = "loop" /\ run.i = 1) =>
            /\ Len(run.results) = Len(scraperNames)
            /\ \A k \in 1..Len(scraperNames) :
                LET fromK == SelectSeq(run.allJobs, LAMBDA job : job.source = scraperNames[k])
                IN  IF run.results[k].status = "fulfilled"
                    THEN fromK = run.results[k].value
                    ELSE fromK = << >>
            /\ \A job \in Range(run.allJobs) : job.source \in Range(scraperNames)
            /\ run.newJobs # << >>
            /\ Range(run.newJobs) \subseteq Range(run.allJobs)
            /\ \A job \in Range(run.newJobs) : hasSeenJob(seenJobs, job.id)

\* a job check delivers although one scraper rejected, with postings after the rejected one
CycleWithFailedScraper ==
    \E run \in Running :
        /\ run.handler = "checkForNewJobs" /\ run.pc = "loop" /\ run.i = 1
        /\ \E k \in 1..3 :
            /\ run.results[k].status = "rejected"
            /\ \E m \in (k + 1)..4 : run.results[m].value # << >>

BatchCapState ==
    /\ \A run \in Running :
        Posting(run) =>
            /\ run.i >= 1
            /\ run.i <= Min(maxBatchSize, Len(run.newJobs)) + 1
            /\ run.pc = "delay" => run.i <= Min(maxBatchSize, Len(run.newJobs))
            /\ \A job \in Range(run.newJobs) : claimed[job.id] = 1
            /\ \A k \in (maxBatchSize + 1)..Len(run.newJobs) :
                (\A m \in 1..maxBatchSize : run.newJobs[m].id # run.newJobs[k].id)
                    => channel[run.newJobs[k].id] = 0
    /\ \A id \in dropped : claimed[id] = 1 /\ channel[id] = 0 /\ hasSeenJob(seenJobs, id)

\* a delivering cycle returns only after one postJob call for each of the first
\* maxBatchSize postings of its new set
BatchCapReturn ==
    \A run \in Running :
        (Posting(run) /\ runs' = runs (-) SetToBag({run}))
            => run.i = Min(maxBatchSize, Len(run.newJobs)) + 1

QueuedOverflowEventuallySent ==
    \A id \in Ids : (id \in dropped) ~> (channel[id] >= 1)

\* C11: every posting that a handler, checkForNewJobs or checkLinkedInEmails,
\* marks seen and hands to delivery satisfies the configured rule set.
FilterPrecedesMarkAndSend ==
    \A run \in Running :
        Posting(run) => \A job \in Range(run.newJobs) : Matches(configFilters, job)

\* C12: filterJobs keeps, in order, exactly the postings with (roles empty or a
\* role in the title) and (locations empty or a location keyword in the
\* location) and no exclude keyword in the title, case-insensitively; a posting
\* matching a role and an exclude keyword is rejected; empty lists match all.
FilterKeepsExactlyMatches ==
    kept.defined =>
        /\ kept.value = SelectSeq(fetched, LAMBDA job : Matches(filters, job))
        /\ \A job \in Range(fetched) :
            (RoleMatch(filters, job) /\ ExcludeMatch(filters, job)) => job \notin Range(kept.value)
        /\ (filters.roles = << >> /\ filters.locations = << >> /\ filters.exclude = << >>)
            => kept.value = fetched

\* filterJobs was handed a posting matching a role and an exclude keyword, next to one it keeps
ExcludedDespiteRole ==
    /\ kept.defined
    /\ \E job \in Range(fetched) : RoleMatch(filters, job) /\ ExcludeMatch(filters, job)
    /\ kept.value # << >>
    /\ filters.locations # << >>

\* C13: once markJobSeen(id, p) has returned, a restart (init reloading the
\* file) finds the id, unless its record is past the horizon; also when the
\* write to the file fails.
DurableMarking ==
    \A id \in Ids :
        (calls[id] # << >> /\ hasSeenJob(seenJobs, id) /\ id \notin Expired(seenJobs, now))
            => hasSeenJob(initStore(disk, now), id)

\* C14: a sweep removes every record whose firstSeen is more than 30 days
\* before now and retains, unchanged, every record whose firstSeen is less
\* than 30 days before now.
EvictionHorizon ==
    [][sweep' # sweep =>
        \A id \in DOMAIN sweep'.store :
            /\ sweep'.store[id].firstSeen < now - 30 => ~hasSeenJob(seenJobs', id)
            /\ sweep'.store[id].firstSeen > now - 30 =>
                /\ hasSeenJob(seenJobs', id)
                /\ seenJobs'[id] = sweep'.store[id]]_vars

\* a sweep met a record 31 days old and one 29 days old
SweptAt31KeptAt29 ==
    /\ sweep.called
    /\ \E id \in DOMAIN sweep.store :
        sweep.store[id].firstSeen = now - 31 /\ ~hasSeenJob(seenJobs, id)
    /\ \E id \in DOMAIN sweep.store :
        sweep.store[id].firstSeen = now - 29 /\ hasSeenJob(seenJobs, id)

\* an id deleted by the startup sweep and fetched by a cycle has been put in a
\* new set, and has a record newer than the deleted one
ReadmittedAfterEviction ==
    \A run \in Running :
        (run.pc = "loop" /\ run.i = 1) =>
            \A job \in Range(run.allJobs) :
                job.id \in sweep.ids =>
                    /\ claimed[job.id] = 1
                    /\ hasSeenJob(seenJobs, job.id)
                    /\ seenJobs[job.id].firstSeen > sweep.store[job.id].firstSeen

\* the sweep deletes a record past the horizon whatever its lastSeen
SweepIgnoresLastSeen ==
    sweep' # sweep =>
        \A id \in DOMAIN sweep'.store :
            sweep'.store[id].firstSeen < now - RetentionDays =>
                /\ id \in sweep'.ids
                /\ ~hasSeenJob(seenJobs', id)

ReturnsCountRemoved ==
    [][sweep' # sweep =>
        /\ sweep'.returned.defined
        /\ sweep'.returned.value =
            Cardinality(DOMAIN sweep'.store) - Cardinality(DOMAIN seenJobs')]_vars

\* C17: when a cycle has fetched a posting whose id has a record, that
\* record's lastSeen is the time of the cycle.
LastSeenAdvancedOnReencounter ==
    \A run \in Running :
        (run.pc = "loop" /\ run.i = 1) =>
            \A job \in Range(run.allJobs) :
                hasSeenJob(seenJobs, job.id) => seenJobs[job.id].lastSeen = now

\* the store holds only what cycles of this run have marked
StoreStartedEmpty ==
    (started /\ disk.kind = "corrupt") => \A id \in DOMAIN seenJobs : claimed[id] >= 1

\* ClientReady with the channel resolved and a file that does not parse: the
\* store is empty, the tasks are scheduled and the first cycle is started
CorruptFileStartsEmpty ==
    (~started /\ started' /\ careerChannel' # Null /\ disk.kind = "corrupt") =>
        /\ \A id \in Ids : ~hasSeenJob(seenJobs', id)
        /\ tasks' = start(schedule)
        /\ runs' = SetToBag({StartedRun("checkForNewJobs", "startup")})

\* C18: when the file exists but cannot be read or parsed, dedup.init does not
\* throw, the store starts empty, and the cycle that follows runs as usual.
FailOpenStartup == [](StoreStartedEmpty) /\ [][CorruptFileStartsEmpty]_vars

\* started on a file that does not parse, a cycle has marked a posting and sent it
CycleAfterCorruptFile ==
    /\ started
    /\ disk.kind = "corrupt"
    /\ \E id \in Ids : channel[id] >= 1 /\ hasSeenJob(seenJobs, id)

\* the executions of a handler in the state `run`
CopiesOf(run, bag) == IF run \in BagToSet(bag) THEN bag[run] ELSE 0

\* C19 as stated: every turn of the postJobs loop makes a send attempt on
\* batch[i] and then awaits the delay, whether the send succeeded or failed.
SendAttemptForEach ==
    [][\A run \in Running :
        (/\ CopiesOf(run, runs') < CopiesOf(run, runs)
         /\ run.pc = "loop" /\ run.i <= Len(Batch(run.newJobs))) =>
            /\ careerChannel # Null
            /\ runs' = Replace(run, [run EXCEPT !.pc = "delay", !.results = << >>, !.allJobs = << >>])]_vars

\* C19, amended: in postJobs postJob is called once for each posting of the
\* batch, in batch order: after the call on batch[i], sent or failed or, with
\* no channel, skipped without a send, the loop awaits the delay and goes on
\* to i + 1, never back to i and never out of the loop.
OneAttemptEachInOrder ==
    [][\A run \in Running :
        CopiesOf(run, runs') < CopiesOf(run, runs) =>
            /\ (run.pc = "loop" /\ run.i <= Len(Batch(run.newJobs))) =>
                /\ runs' = Replace(run, [run EXCEPT !.pc = "delay", !.results = << >>, !.allJobs = << >>])
                /\ \/ channel' = channel
                   \/ /\ careerChannel # Null
                      /\ channel' = [channel EXCEPT ![run.newJobs[run.i].id] = @ + 1]
            /\ run.pc = "delay" =>
                /\ runs' = Replace(run, [run EXCEPT !.pc = "loop", !.i = run.i + 1])
                /\ run.i <= Len(Batch(run.newJobs))
                /\ channel' = channel
            /\ (run.pc = "loop" /\ run.i > Len(Batch(run.newJobs))) =>
                /\ run.i = Len(Batch(run.newJobs)) + 1
                /\ channel' = channel]_vars

\* the send of the first posting failed and the second posting has been sent
SentAfterFailedSend ==
    \E run \in Running :
        /\ run.pc = "delay" /\ run.i = 2
        /\ careerChannel # Null
        /\ run.newJobs[1].id # run.newJobs[2].id
        /\ channel[run.newJobs[1].id] = 0
        /\ channel[run.newJobs[2].id] = 1

\* a task whose callback caught a failure is still scheduled and can fire
FailedTaskStillScheduled ==
    \A name \in caught :
        /\ name \in tasks
        /\ BagCardinality(runs) < MaxRuns => ENABLED CronFire(name)

\* C20: a handler failure is caught in the cron callback, the task stays
\* scheduled, and the next firing calls the handler again.
HandlerFailureKeepsTask ==
    [](FailedTaskStillScheduled) /\ [][caught' # caught => tasks' = tasks]_vars

\* after a caught failure the timer has fired again and its handler is running
FiredAgainAfterFailure ==
    \E name \in caught : InProgress(HandlerOf(name), "cron") >= 1

DelayBetweenSends ==
    [][/\ \A id \in Ids :
            channel'[id] # channel[id] =>
                /\ channel' = [channel EXCEPT ![id] = @ + 1]
                /\ \E run \in Running :
                    /\ run.pc = "loop" /\ run.i <= Len(Batch(run.newJobs))
                    /\ Batch(run.newJobs)[run.i].id = id
                    /\ runs' = Replace(run, [run EXCEPT !.pc = "delay", !.results = << >>, !.allJobs = << >>])
       /\ \A run \in Running :
            (run.pc = "delay" /\ CopiesOf(run, runs') < CopiesOf(run, runs)) =>
                /\ channel' = channel
                /\ runs' = Replace(run, [run EXCEPT !.pc = "loop", !.i = run.i + 1])]_vars

\* the first two postings of a batch have both been sent, a delay apart
TwoSendsOfOneBatch ==
    \E run \in Running :
        /\ run.pc = "delay" /\ run.i = 2
        /\ run.newJobs[1].id # run.newJobs[2].id
        /\ channel[run.newJobs[1].id] = 1
        /\ channel[run.newJobs[2].id] = 1

\* C23: after a shutdown in the middle of a delivery, nothing of the cycles
\* it cut short is sent by the restarted process: the postings left unsent stay
\* unsent and the postings already sent are not sent again.
NothingOfCutCycleSentAfterRestart ==
    \A id \in lost.ids : channel[id] = lost.channel[id]

\* C24: two fetches of one source entry by one scraper build the same id: the
\* id comes from the entry alone, never from the time of the fetch.
StableIds ==
    \A f \in 1..Len(fetches), g \in 1..Len(fetches) :
        \A a \in 1..Len(fetches[f].jobs), b \in 1..Len(fetches[g].jobs) :
            fetches[f].jobs[a].entry = fetches[g].jobs[b].entry =>
                fetches[f].jobs[a].id = fetches[g].jobs[b].id

\* C25: every posting a scraper returns has a title and a URL, and is built
\* from a source entry that had both: an entry lacking a title or a link is
\* discarded.
ReturnedHaveTitleAndUrl ==
    \A f \in 1..Len(fetches) :
        \A a \in 1..Len(fetches[f].jobs) :
            LET job == fetches[f].jobs[a]
                entry == page.entries[job.entry]
            IN  /\ job.title # "" /\ job.url # << >>
                /\ entry.title # "" /\ entry.href # << >>

\* no task and no scheduled execution for a timer whose expression is null
NullTimerOff ==
    \A name \in TaskNames :
        schedule[name] = Null =>
            /\ name \notin tasks
            /\ InProgress(HandlerOf(name), "cron") = 0

\* C26: a null schedule expression disables that timer only: scheduler.start
\* creates no task for it and its handler is never called by the scheduler,
\* while the timer whose expression is set and valid is scheduled, whichever
\* of the two is null.
NullDisablesThatTimerOnly ==
    /\ [](NullTimerOff)
    /\ [][(~started /\ runs' # EmptyBag) =>
            \A name \in TaskNames : cronValidate(schedule[name]) => name \in tasks']_vars

\* one timer is off and the scheduler has called the handler of the other
OtherTimerFired ==
    \E off \in TaskNames, on \in TaskNames :
        /\ schedule[off] = Null
        /\ on \in tasks
        /\ InProgress(HandlerOf(on), "cron") >= 1

\* C27: a manual trigger whose run failed reports the failure: once a send of
\* an execution started by scheduler.trigger has failed, trigger rejects, so
\* its caller sees a failure.
TriggerReportsFailure ==
    (\E run \in Running :
        /\ run.via = "trigger" /\ run.pc = "delay"
        /\ careerChannel # Null
        /\ channel[Batch(run.newJobs)[run.i].id] = 0)
    ~> ("trigger" \in caught)

\* C28: in checkForNewJobs the four scrapers are started together, before any
\* result is awaited, so that none waits for a slow or failed one, and the
\* handler goes on to filter and mark only when all four have settled.
ConcurrentFetch ==
    /\ [](\A run \in Running :
            run.pc = "fetch" => (run.results = << >> \/ Len(run.results) = Len(scraperNames)))
    /\ [][\A run \in Running :
            (/\ run.pc = "fetch"
             /\ \/ seenJobs' # seenJobs
                \/ \A next \in BagToSet(runs') : next.pc # "fetch") =>
                /\ run.results # << >>
                /\ \A k \in 1..Len(run.results) : run.results[k].status # "pending"]_vars

\* the first scraper is still pending while another has rejected and a third
\* has delivered postings
OthersSettledBeforeFirst ==
    \E run \in Running :
        /\ run.pc = "fetch" /\ run.results # << >>
        /\ run.results[1] = Pending
        /\ \E k \in 1..Len(run.results) : run.results[k].status = "rejected"
        /\ \E k \in 1..Len(run.results) :
            run.results[k].status = "fulfilled" /\ run.results[k].value # << >>

\* C29: overlapping cycles cannot both claim an id: a cycle filters and marks
\* in one step, so an id it puts in its new set is unseen before that step and
\* seen after it, and the new sets of the executions that are delivering at
\* the same time have no id in common.
OverlappingCyclesDisjoint ==
    /\ [](\A run \in Running :
            Posting(run) =>
                /\ runs[run] = 1
                /\ \A other \in Running \ {run} :
                    Posting(other) => IdsOf(run.newJobs) \cap IdsOf(other.newJobs) = {})
    /\ [][\A id \in Ids :
            claimed'[id] > claimed[id] => (~hasSeenJob(seenJobs, id) /\ hasSeenJob(seenJobs', id))]_vars

\* two cycles are delivering at once, and one of them had fetched a posting
\* that the other had already claimed
OverlapWithSharedPosting ==
    \E run \in Running, other \in Running :
        /\ run # other
        /\ run.pc = "loop" /\ run.i = 1
        /\ Posting(other)
        /\ \E k \in 1..Len(run.allJobs) : run.allJobs[k].id \in IdsOf(other.newJobs)

\* C30: at most one postJobs delivery loop is active at any time, over all
\* the handler executions.
OneDeliveryLoopAtATime ==
    BagCardinality([run \in {x \in Running : Posting(x)} |-> runs[run]]) <= 1

\* what scrapeCompany had pushed for a board when it returned
Collected(board) == IF board.cut = NoFailure THEN Len(board.listing) ELSE board.cut

\* C31: inside the Lever and Greenhouse adapters a failure stays with its
\* company: no scrapeCompany promise rejects, scrape() does not reject, and its
\* result holds every posting that matches the filters and that any company,
\* failed or not, had delivered before its failure.
CompanyIsolation ==
    /\ adapter.status # "rejected"
    /\ \A c \in 1..Len(adapter.companies) : adapter.companies[c].promise.status # "rejected"
    /\ adapter.status = "fulfilled" =>
        \A c \in 1..Len(adapter.companies) :
            \A k \in 1..Collected(adapter.companies[c]) :
                Matches(filters, adapter.companies[c].listing[k]) =>
                    adapter.companies[c].listing[k] \in Range(kept.value)

\* scrape() has returned the postings of one company although the other
\* company's fetch failed before its first posting
OtherCompanyFailed ==
    /\ adapter.status = "fulfilled"
    /\ \E c \in 1..Len(adapter.companies), d \in 1..Len(adapter.companies) :
        /\ c # d
        /\ adapter.companies[c].cut = 0 /\ adapter.companies[c].listing # << >>
        /\ adapter.companies[d].cut = NoFailure
        /\ \E k \in 1..Len(adapter.companies[d].listing) :
            adapter.companies[d].listing[k] \in Range(kept.value)

\* C32: the array parse() resolves with holds the jobs of every email whose
\* body was parsed, whatever the order of the parse callbacks, the fetch end,
\* the close timer and the connection end: no callback adds its jobs after
\* the caller has taken the result.
ParseComplete ==
    mailbox.resolved.defined =>
        \A m \in mailbox.parsed :
            \A k \in 1..Len(emailJobs(m)) : emailJobs(m)[k] \in Range(mailbox.resolved.value)

\* an expression that is set and fails cron.validate has no task and its
\* handler is not running on behalf of the scheduler
InvalidCron(name) == schedule[name] # Null /\ ~cronValidate(schedule[name])

InvalidTimerOff ==
    \A name \in TaskNames :
        InvalidCron(name) =>
            /\ name \notin tasks
            /\ InProgress(HandlerOf(name), "cron") = 0

\* C33: an invalid cron expression is isolated: start creates no task for it
\* and never invokes its handler, and the other task is still scheduled when
\* its expression is valid.
InvalidCronIsolated ==
    /\ [](InvalidTimerOff)
    /\ [][(~started /\ runs' # EmptyBag /\ \E bad \in TaskNames : InvalidCron(bad)) =>
            \A name \in TaskNames : cronValidate(schedule[name]) => name \in tasks']_vars

\* one expression is invalid and the scheduler has called the handler of the other
ValidTimerFiredBesideInvalid ==
    \E bad \in TaskNames, on \in TaskNames :
        /\ InvalidCron(bad)
        /\ on \in tasks
        /\ InProgress(HandlerOf(on), "cron") >= 1

\* C34: the postings of a cycle that ran while careerChannel was not resolved
\* were marked seen and not sent, and are never sent in a later cycle, also
\* once the process runs again with the channel resolved.
SkippedNeverSentLater ==
    (lost.shutdowns >= 1 /\ lost.careerChannel = Null) =>
        \A id \in lost.ids : channel[id] = 0

\* C35: after any sequence of init, markJobSeen and cleanOldEntries calls,
\* every record of the store is kept under the key equal to its id field and
\* has firstSeen <= lastSeen.
StoreRecordInvariant ==
    \A id \in DOMAIN seenJobs :
        /\ seenJobs[id].id = id
        /\ seenJobs[id].firstSeen <= seenJobs[id].lastSeen

\* a record marked a second time, later than the first
RecordMarkedAgainLater ==
    \E id \in DOMAIN seenJobs :
        /\ Len(calls[id]) >= 2
        /\ seenJobs[id].firstSeen < seenJobs[id].lastSeen
        /\ seenJobs[id].lastSeen = now

\* C36: when an init, markJobSeen or cleanOldEntries call that touched the
\* cache or the file has completed, the file holds exactly the seenJobs map,
\* also after a failed initial read and after a failed write.
CacheMirrorsDisk ==
    [][(seenJobs' # seenJobs \/ disk' # disk) => disk' = JsonFile(seenJobs')]_vars

\* C37: while the process runs the set of seen ids only grows: an id that is
\* seen stays seen, also when its record is older than 30 days, because the
\* sweep runs only inside dedup.init, and there only on a file that exists.
SeenSetMonotonic ==
    [][/\ started => \A id \in DOMAIN seenJobs : hasSeenJob(seenJobs', id)
       /\ sweep' # sweep => (~started /\ disk.kind = "json")]_vars

\* a record past the 30 days is still seen while a cycle marks a new posting
ExpiredRecordStillSeen ==
    /\ started
    /\ \E id \in Expired(seenJobs, now) : hasSeenJob(seenJobs, id)
    /\ \E id \in DOMAIN seenJobs : seenJobs[id].firstSeen = now

====
